---- MODULE Spec2Model ----
(***************************************************************************)
(* A model of src/scheduling.py: the Process objects, the                  *)
(* SchedulerSimulator and its four policies (fifo_schedule, sjf_schedule,  *)
(* stcf_schedule, rr_schedule).                                            *)
(*                                                                         *)
(* Process objects live in `heap` and lists hold references to them, as in *)
(* Python: original_processes is the caller's list, processes the          *)
(* simulator's working list.  One policy call is a begin step (the code up *)
(* to its main loop), one step per iteration of the main loop, and a       *)
(* return step (loop exit, calculate_metrics, print_results).              *)
(***************************************************************************)
EXTENDS Integers, Sequences, FiniteSets, TLC

\* ------------------------------------------------------------- bounds
MaxProcs == 2
MaxArrival == 2
MaxBurst == 3
MaxQuantum == 2

VARIABLES
    original_processes, \* SchedulerSimulator.original_processes: list of references
    heap,               \* reference -> Process object
    processes,          \* SchedulerSimulator.processes: list of references
    timeline,           \* SchedulerSimulator.timeline: list of (label, start, end)
    pc,                 \* position of the caller / of the running policy
    policy,             \* the policy of the current (or last) call
    prev,               \* the policy of the call before it
    quantum,            \* rr_schedule's parameter
    current_time,       \* local of every policy
    idx,                \* fifo_schedule: position of the for loop in processes
    remaining,          \* sjf_schedule: local list
    completed,          \* sjf/stcf/rr: local list
    queue,              \* rr_schedule: local deque
    in_queue,           \* rr_schedule: local set of pids
    result,             \* value returned by the last call
    exception,          \* exception raised by the last call
    seen                \* history: the states of the first call that ended
                        \* and of the current call (kept only when seen.on)

vars == <<original_processes, heap, processes, timeline, pc, policy, prev,
          quantum, current_time, idx, remaining, completed, queue, in_queue,
          result, exception, seen>>

\* ------------------------------------------------------------- helpers
Min(a, b) == IF a <= b THEN a ELSE b

Last(s) == s[Len(s)]

Range(s) == {s[i] : i \in 1..Len(s)}

RECURSIVE SumSeq(_, _)
\* sum of f[s[i]] over the list s
SumSeq(f, s) == IF Len(s) = 0 THEN 0 ELSE f[Head(s)] + SumSeq(f, Tail(s))

\* ------------------------------------------------------------- the input
Orig(i) == heap[original_processes[i]]

NumProcs == Len(original_processes)

TotalBurst == SumSeq([r \in DOMAIN heap |-> heap[r].burst_time], original_processes)

MaxArrivalOf ==
    LET arr == {heap[r].arrival_time : r \in Range(original_processes)}
    IN IF arr = {} THEN 0 ELSE CHOOSE m \in arr : \A a \in arr : a <= m

\* No run on valid input reaches this clock value or this timeline length;
\* they stop the runs that never end.
MaxClock == MaxArrivalOf + TotalBurst + 2
MaxTimeline == MaxClock

\* ------------------------------------------------------------- Process
Process(pid, arrival_time, burst_time) ==
    [pid |-> pid, arrival_time |-> arrival_time, burst_time |-> burst_time,
     remaining_time |-> burst_time, completion_time |-> 0,
     turnaround_time |-> 0, waiting_time |-> 0, response_time |-> 0,
     first_run |-> -1]

\* f'P{process.pid}' and 'IDLE'
Label(pid) == <<"P", pid>>
IDLE == <<"IDLE">>

NoResult == [none |-> TRUE]
NoException == "none"

\* ------------------------------------------------------------- SchedulerSimulator
\* Process.reset()
reset(p) ==
    [p EXCEPT !.remaining_time = p.burst_time, !.completion_time = 0,
              !.turnaround_time = 0, !.waiting_time = 0,
              !.response_time = 0, !.first_run = -1]

\* reset_processes reusing the caller's objects: p.reset(); append(p)
reset_processes_in_place(h, orig) ==
    [heap |-> [r \in DOMAIN h |-> IF r \in Range(orig) THEN reset(h[r]) ELSE h[r]],
     processes |-> orig,
     timeline |-> <<>>]

\* reset_processes handing out the caller's objects as they are
reset_processes_stale(h, orig) ==
    [heap |-> h, processes |-> orig, timeline |-> <<>>]

\* New Process objects get the references n+1..2n; the objects of the
\* previous working list are unreachable once self.processes is reassigned.
reset_processes(h, orig) ==
    LET n == Len(orig) IN
    [heap |-> [r \in 1..(2 * n) |->
                 IF r <= n THEN h[r]
                 ELSE LET p == h[orig[r - n]]
                      IN Process(p.pid, p.arrival_time, p.burst_time)],
     processes |-> [i \in 1..n |-> n + i],
     timeline |-> <<>>]

\* calculate_metrics taking waiting from completion_time instead of turnaround
calculate_metrics_from_completion(h, procs) ==
    [r \in DOMAIN h |->
        IF r \in Range(procs)
        THEN LET tat == h[r].completion_time - h[r].arrival_time
             IN [h[r] EXCEPT !.turnaround_time = tat,
                             !.waiting_time = h[r].completion_time - h[r].burst_time]
        ELSE h[r]]

calculate_metrics(h, procs) ==
    [r \in DOMAIN h |->
        IF r \in Range(procs)
        THEN LET tat == h[r].completion_time - h[r].arrival_time
             IN [h[r] EXCEPT !.turnaround_time = tat,
                             !.waiting_time = tat - h[r].burst_time]
        ELSE h[r]]

\* A float total/n is kept as the exact ratio <<total, n>>.
print_results(h, procs) ==
    LET n == Len(procs)
        total_tat == SumSeq([r \in DOMAIN h |-> h[r].turnaround_time], procs)
        total_wt == SumSeq([r \in DOMAIN h |-> h[r].waiting_time], procs)
        total_rt == SumSeq([r \in DOMAIN h |-> h[r].response_time], procs)
    IN IF n = 0
       THEN [raised |-> "ZeroDivisionError", value |-> NoResult]
       ELSE [raised |-> NoException,
             value |-> [avg_tat |-> <<total_tat, n>>,
                        avg_wt |-> <<total_wt, n>>,
                        avg_rt |-> <<total_rt, n>>]]

\* self.calculate_metrics(); return self.print_results(...)
Finish ==
    LET h == calculate_metrics(heap, processes)
        out == print_results(h, processes)
    IN /\ heap' = h
       /\ result' = out.value
       /\ exception' = out.raised
       /\ pc' = IF out.raised = NoException THEN "done" ELSE "raised"

Callable == {"ready", "done", "raised"}

\* ------------------------------------------------------------- history
\* what a call can read or leave behind
Snapshot ==
    [pc |-> pc, current_time |-> current_time, timeline |-> timeline,
     processes |-> [i \in 1..Len(processes) |-> heap[processes[i]]],
     idx |-> idx, remaining |-> remaining, completed |-> completed,
     queue |-> queue, in_queue |-> in_queue,
     result |-> result, exception |-> exception]

NotTracking == [on |-> FALSE, call |-> <<>>, first |-> <<>>, trace |-> <<>>]
Tracking == [on |-> TRUE, call |-> <<>>, first |-> <<>>, trace |-> <<>>]

\* seen.trace: the states of the current call, one per step; seen.call and
\* seen.first: the policy and quantum of the first call that ended, and its
\* states.  Last conjunct of every step.
Track ==
    seen' =
        IF ~seen.on THEN seen
        ELSE LET tr == IF pc \in Callable THEN <<Snapshot'>>
                       ELSE Append(seen.trace, Snapshot')
             IN IF pc' \in {"done", "raised"} /\ seen.call = <<>>
                THEN [on |-> TRUE, call |-> <<policy', quantum'>>,
                      first |-> tr, trace |-> tr]
                ELSE [seen EXCEPT !.trace = tr]

\* Entering a policy: the locals of the others do not exist.
Enter(name) ==
    /\ pc \in Callable
    /\ pc' = name
    /\ policy' = name
    /\ prev' = policy
    /\ result' = NoResult
    /\ exception' = NoException
    /\ current_time' = 0
    /\ UNCHANGED original_processes

\* ------------------------------------------------------------- FIFO
RECURSIVE InsertByArrival_unstable(_, _, _)
\* InsertByArrival putting r before the elements with an equal key
InsertByArrival_unstable(h, s, r) ==
    IF Len(s) = 0 THEN <<r>>
    ELSE IF h[Head(s)].arrival_time < h[r].arrival_time
         THEN <<Head(s)>> \o InsertByArrival_unstable(h, Tail(s), r)
         ELSE <<r>> \o s

RECURSIVE InsertByArrival(_, _, _)
\* r goes after every element whose key is <= its own (the sort is stable)
InsertByArrival(h, s, r) ==
    IF Len(s) = 0 THEN <<r>>
    ELSE IF h[Head(s)].arrival_time <= h[r].arrival_time
         THEN <<Head(s)>> \o InsertByArrival(h, Tail(s), r)
         ELSE <<r>> \o s

\* SortByArrival leaving the list in the caller's order
SortByArrival_unsorted(h, s) == s

RECURSIVE SortByArrival(_, _)
\* self.processes.sort(key=lambda x: x.arrival_time)
SortByArrival(h, s) ==
    IF Len(s) = 0 THEN <<>>
    ELSE InsertByArrival(h, SortByArrival(h, SubSeq(s, 1, Len(s) - 1)), Last(s))

fifo_begin ==
    /\ Enter("fifo")
    /\ LET r == reset_processes(heap, original_processes) IN
        /\ heap' = r.heap
        /\ processes' = SortByArrival(r.heap, r.processes)
        /\ timeline' = r.timeline
    /\ idx' = 1
    /\ quantum' = 0 /\ remaining' = <<>> /\ completed' = <<>>
    /\ queue' = <<>> /\ in_queue' = {}
    /\ Track

\* one iteration of `for process in self.processes`
fifo_loop ==
    /\ pc = "fifo"
    /\ idx <= Len(processes)
    /\ LET p == processes[idx]
           idle == current_time < heap[p].arrival_time
           start_time == IF idle THEN heap[p].arrival_time ELSE current_time
           tl == IF idle
                 THEN Append(timeline, <<IDLE, current_time, heap[p].arrival_time>>)
                 ELSE timeline
           end_time == start_time + heap[p].burst_time
       IN /\ heap' = [heap EXCEPT ![p] =
                        [@ EXCEPT !.response_time = start_time - heap[p].arrival_time,
                                  !.first_run = start_time,
                                  !.completion_time = end_time]]
          /\ current_time' = end_time
          /\ timeline' = Append(tl, <<Label(heap[p].pid), start_time, end_time>>)
    /\ idx' = idx + 1
    /\ UNCHANGED <<original_processes, processes, pc, policy, prev, quantum,
                   remaining, completed, queue, in_queue, result, exception>>
    /\ Track

fifo_return ==
    /\ pc = "fifo"
    /\ idx > Len(processes)
    /\ Finish
    /\ UNCHANGED <<original_processes, processes, timeline, policy, prev,
                   quantum, current_time, idx, remaining, completed, queue,
                   in_queue>>
    /\ Track

\* ------------------------------------------------------------- SJF
\* FirstMin returning the first element of s whose key is maximal
FirstMin_largest(keys, s) ==
    LET i == CHOOSE i \in 1..Len(s) :
                 /\ \A j \in 1..Len(s) : keys[s[i]] >= keys[s[j]]
                 /\ \A j \in 1..(i - 1) : keys[s[j]] < keys[s[i]]
    IN s[i]

\* FirstMin returning the last element of s whose key is minimal
FirstMin_last(keys, s) ==
    LET i == CHOOSE i \in 1..Len(s) :
                 /\ \A j \in 1..Len(s) : keys[s[i]] <= keys[s[j]]
                 /\ \A j \in (i + 1)..Len(s) : keys[s[j]] > keys[s[i]]
    IN s[i]

\* min(s, key=...): the first element of s whose key is minimal
FirstMin(keys, s) ==
    LET i == CHOOSE i \in 1..Len(s) :
                 /\ \A j \in 1..Len(s) : keys[s[i]] <= keys[s[j]]
                 /\ \A j \in 1..(i - 1) : keys[s[j]] > keys[s[i]]
    IN s[i]

\* list.remove(r): drops the first occurrence of r
RemoveFirst(s, r) ==
    LET i == CHOOSE i \in 1..Len(s) :
                 s[i] = r /\ \A j \in 1..(i - 1) : s[j] # r
    IN SubSeq(s, 1, i - 1) \o SubSeq(s, i + 1, Len(s))

\* Arrived without the arrival test
Arrived_all(h, s, t) == s

\* [p for p in s if p.arrival_time <= t]
Arrived(h, s, t) ==
    LET here(r) == h[r].arrival_time <= t IN SelectSeq(s, here)

sjf_begin ==
    /\ Enter("sjf")
    /\ LET r == reset_processes(heap, original_processes) IN
        /\ heap' = r.heap
        /\ processes' = r.processes
        /\ timeline' = r.timeline
        /\ remaining' = r.processes
    /\ completed' = <<>>
    /\ idx' = 0 /\ quantum' = 0 /\ queue' = <<>> /\ in_queue' = {}
    /\ Track

\* one iteration of `while remaining`
sjf_loop ==
    /\ pc = "sjf"
    /\ Len(remaining) > 0
    /\ LET available == Arrived(heap, remaining, current_time) IN
       IF Len(available) = 0
       THEN LET arrivals == [r \in DOMAIN heap |-> heap[r].arrival_time]
                next_arrival == arrivals[FirstMin(arrivals, remaining)]
            IN /\ timeline' = Append(timeline, <<IDLE, current_time, next_arrival>>)
               /\ current_time' = next_arrival
               /\ UNCHANGED <<heap, remaining, completed>>
       ELSE LET shortest == FirstMin([r \in DOMAIN heap |-> heap[r].burst_time],
                                     available)
                end_time == current_time + heap[shortest].burst_time
            IN /\ remaining' = RemoveFirst(remaining, shortest)
               /\ heap' = [heap EXCEPT ![shortest] =
                             [@ EXCEPT !.response_time =
                                           current_time - heap[shortest].arrival_time,
                                       !.first_run = current_time,
                                       !.completion_time = end_time]]
               /\ current_time' = end_time
               /\ timeline' = Append(timeline, <<Label(heap[shortest].pid),
                                                 current_time, end_time>>)
               /\ completed' = Append(completed, shortest)
    /\ UNCHANGED <<original_processes, processes, pc, policy, prev, quantum,
                   idx, queue, in_queue, result, exception>>
    /\ Track

sjf_return ==
    /\ pc = "sjf"
    /\ Len(remaining) = 0
    /\ Finish
    /\ UNCHANGED <<original_processes, processes, timeline, policy, prev,
                   quantum, current_time, idx, remaining, completed, queue,
                   in_queue>>
    /\ Track

\* ------------------------------------------------------------- STCF
\* first_dispatch recording every dispatch as the first
first_dispatch_always(p, t) ==
    [p EXCEPT !.response_time = t - p.arrival_time, !.first_run = t]

\* if current_process.first_run == -1: response_time and first_run are set
first_dispatch(p, t) ==
    IF p.first_run = -1
    THEN [p EXCEPT !.response_time = t - p.arrival_time, !.first_run = t]
    ELSE p

\* Available without the arrival test
Available_any_time(h, s, t) ==
    LET ok(r) == h[r].remaining_time > 0 IN SelectSeq(s, ok)

\* Available with a process admitted only after its arrival instant
Available_late(h, s, t) ==
    LET ok(r) == h[r].arrival_time < t /\ h[r].remaining_time > 0
    IN SelectSeq(s, ok)

\* [p for p in s if p.arrival_time <= t and p.remaining_time > 0]
Available(h, s, t) ==
    LET ok(r) == h[r].arrival_time <= t /\ h[r].remaining_time > 0
    IN SelectSeq(s, ok)

\* stcf_add with the merged entry restarted at the last unit
stcf_add_restart(tl, label, start_time, end_time) ==
    IF Len(tl) > 0 /\ Last(tl)[1] = label /\ Last(tl)[3] = start_time
    THEN [tl EXCEPT ![Len(tl)] = <<label, start_time, end_time>>]
    ELSE Append(tl, <<label, start_time, end_time>>)

\* the timeline after one executed unit: the last entry is extended when it
\* has the same label and ends where the unit starts
stcf_add(tl, label, start_time, end_time) ==
    IF Len(tl) > 0 /\ Last(tl)[1] = label /\ Last(tl)[3] = start_time
    THEN [tl EXCEPT ![Len(tl)] = <<Last(tl)[1], Last(tl)[2], end_time>>]
    ELSE Append(tl, <<label, start_time, end_time>>)

stcf_begin ==
    /\ Enter("stcf")
    /\ LET r == reset_processes(heap, original_processes) IN
        /\ heap' = r.heap
        /\ processes' = r.processes
        /\ timeline' = r.timeline
    /\ completed' = <<>>
    /\ idx' = 0 /\ quantum' = 0 /\ remaining' = <<>>
    /\ queue' = <<>> /\ in_queue' = {}
    /\ Track

\* one iteration of `while len(completed) < len(self.processes)`
stcf_loop ==
    /\ pc = "stcf"
    /\ Len(completed) < Len(processes)
    /\ current_time < MaxClock
    /\ LET available == Available(heap, processes, current_time) IN
       IF Len(available) = 0
       THEN /\ current_time' = current_time + 1
            /\ UNCHANGED <<heap, timeline, completed>>
       ELSE LET cp == FirstMin([r \in DOMAIN heap |-> heap[r].remaining_time],
                               available)
                rem == heap[cp].remaining_time - 1
                end_time == current_time + 1
            IN /\ heap' = [heap EXCEPT ![cp] =
                             [first_dispatch(@, current_time)
                                 EXCEPT !.remaining_time = rem,
                                        !.completion_time =
                                            IF rem = 0 THEN end_time ELSE @]]
               /\ current_time' = end_time
               /\ completed' = IF rem = 0 THEN Append(completed, cp) ELSE completed
               /\ timeline' = stcf_add(timeline, Label(heap[cp].pid),
                                       current_time, end_time)
    /\ UNCHANGED <<original_processes, processes, pc, policy, prev, quantum,
                   idx, remaining, queue, in_queue, result, exception>>
    /\ Track

stcf_return ==
    /\ pc = "stcf"
    /\ Len(completed) >= Len(processes)
    /\ Finish
    /\ UNCHANGED <<original_processes, processes, timeline, policy, prev,
                   quantum, current_time, idx, remaining, completed, queue,
                   in_queue>>
    /\ Track

\* ------------------------------------------------------------- Round Robin
RECURSIVE InitialQueue_everyone(_, _, _, _, _)
\* InitialQueue without the arrival test
InitialQueue_everyone(h, procs, t, q, inq) ==
    IF Len(procs) = 0 THEN [queue |-> q, in_queue |-> inq]
    ELSE LET p == Head(procs) IN
         InitialQueue_everyone(h, Tail(procs), t, Append(q, p),
                               inq \cup {h[p].pid})

RECURSIVE InitialQueue(_, _, _, _, _)
\* for p in self.processes: if p.arrival_time <= current_time: append, add
InitialQueue(h, procs, t, q, inq) ==
    IF Len(procs) = 0 THEN [queue |-> q, in_queue |-> inq]
    ELSE LET p == Head(procs) IN
         IF h[p].arrival_time <= t
         THEN InitialQueue(h, Tail(procs), t, Append(q, p), inq \cup {h[p].pid})
         ELSE InitialQueue(h, Tail(procs), t, q, inq)

RECURSIVE Admit_unguarded(_, _, _, _, _, _)
\* Admit without the `p.pid not in in_queue` test
Admit_unguarded(h, procs, t, q, inq, skip) ==
    IF Len(procs) = 0 THEN [queue |-> q, in_queue |-> inq]
    ELSE LET p == Head(procs) IN
         IF /\ h[p].arrival_time <= t
            /\ h[p].remaining_time > 0
            /\ p # skip
         THEN Admit_unguarded(h, Tail(procs), t, Append(q, p),
                              inq \cup {h[p].pid}, skip)
         ELSE Admit_unguarded(h, Tail(procs), t, q, inq, skip)

RECURSIVE Admit_no_skip(_, _, _, _, _, _)
\* Admit without the `p != current_process` test
Admit_no_skip(h, procs, t, q, inq, skip) ==
    IF Len(procs) = 0 THEN [queue |-> q, in_queue |-> inq]
    ELSE LET p == Head(procs) IN
         IF /\ h[p].arrival_time <= t
            /\ h[p].pid \notin inq
            /\ h[p].remaining_time > 0
         THEN Admit_no_skip(h, Tail(procs), t, Append(q, p),
                            inq \cup {h[p].pid}, skip)
         ELSE Admit_no_skip(h, Tail(procs), t, q, inq, skip)

RECURSIVE Admit(_, _, _, _, _, _)
\* for p in self.processes: if arrived, pid not in in_queue, remaining_time > 0
\* (and p is not the object `skip`): append, add.  skip = 0 is no object.
Admit(h, procs, t, q, inq, skip) ==
    IF Len(procs) = 0 THEN [queue |-> q, in_queue |-> inq]
    ELSE LET p == Head(procs) IN
         IF /\ h[p].arrival_time <= t
            /\ h[p].pid \notin inq
            /\ h[p].remaining_time > 0
            /\ p # skip
         THEN Admit(h, Tail(procs), t, Append(q, p), inq \cup {h[p].pid}, skip)
         ELSE Admit(h, Tail(procs), t, q, inq, skip)

\* execution_time without the min: always a whole quantum
execution_time_whole(q, remaining_time) == q

\* execution_time = min(quantum, current_process.remaining_time)
execution_time(q, remaining_time) == Min(q, remaining_time)

\* self.timeline.append((label, start_time, current_time))
rr_add(tl, label, start_time, end_time) ==
    Append(tl, <<label, start_time, end_time>>)

\* after_slice re-queueing the process that ran before the arrivals
after_slice_requeue_first(h, procs, t, q, inq, cp) ==
    IF h[cp].remaining_time = 0
    THEN Admit(h, procs, t, q, inq, cp)
    ELSE Admit(h, procs, t, Append(q, cp), inq \cup {h[cp].pid}, cp)

\* the queue and in_queue after a slice of cp that ended at t: the arrival
\* scan, then cp appended unless it is finished
after_slice(h, procs, t, q, inq, cp) ==
    LET b == Admit(h, procs, t, q, inq, cp) IN
    IF h[cp].remaining_time = 0
    THEN b
    ELSE [queue |-> Append(b.queue, cp), in_queue |-> b.in_queue \cup {h[cp].pid}]

\* def rr_schedule(self, quantum=3)
DefaultQuantum == 3

rr_begin ==
    /\ Enter("rr")
    /\ \E q \in (0..MaxQuantum) \cup {DefaultQuantum} : quantum' = q
    /\ LET r == reset_processes(heap, original_processes)
           init == InitialQueue(r.heap, r.processes, 0, <<>>, {})
       IN /\ heap' = r.heap
          /\ processes' = r.processes
          /\ timeline' = r.timeline
          /\ queue' = init.queue
          /\ in_queue' = init.in_queue
    /\ completed' = <<>>
    /\ idx' = 0 /\ remaining' = <<>>
    /\ Track

\* one iteration of `while queue or len(completed) < len(self.processes)`
rr_loop ==
    /\ pc = "rr"
    /\ Len(queue) > 0 \/ Len(completed) < Len(processes)
    /\ current_time < MaxClock
    /\ Len(timeline) < MaxTimeline
    /\ LET a == Admit(heap, processes, current_time, queue, in_queue, 0) IN
       IF Len(a.queue) = 0
       THEN /\ current_time' = current_time + 1
            /\ queue' = a.queue
            /\ in_queue' = a.in_queue
            /\ UNCHANGED <<heap, timeline, completed, pc, exception>>
       ELSE LET cp == Head(a.queue) IN
            IF heap[cp].pid \notin a.in_queue
            THEN \* in_queue.remove(pid) of an absent pid
                 /\ pc' = "raised"
                 /\ exception' = "KeyError"
                 /\ queue' = Tail(a.queue)
                 /\ in_queue' = a.in_queue
                 /\ UNCHANGED <<heap, timeline, completed, current_time>>
            ELSE LET run == execution_time(quantum, heap[cp].remaining_time)
                     rem == heap[cp].remaining_time - run
                     end_time == current_time + run
                     h == [heap EXCEPT ![cp] =
                             [first_dispatch(@, current_time)
                                 EXCEPT !.remaining_time = rem]]
                     b == after_slice(h, processes, end_time, Tail(a.queue),
                                      a.in_queue \ {heap[cp].pid}, cp)
                 IN /\ current_time' = end_time
                    /\ timeline' = rr_add(timeline, Label(heap[cp].pid),
                                          current_time, end_time)
                    /\ queue' = b.queue
                    /\ in_queue' = b.in_queue
                    /\ IF rem = 0
                       THEN /\ heap' = [h EXCEPT ![cp].completion_time = end_time]
                            /\ completed' = Append(completed, cp)
                       ELSE /\ heap' = h
                            /\ completed' = completed
                    /\ UNCHANGED <<pc, exception>>
    /\ UNCHANGED <<original_processes, processes, policy, prev, quantum, idx,
                   remaining, result>>
    /\ Track

rr_return ==
    /\ pc = "rr"
    /\ ~(Len(queue) > 0 \/ Len(completed) < Len(processes))
    /\ Finish
    /\ UNCHANGED <<original_processes, processes, timeline, policy, prev,
                   quantum, current_time, idx, remaining, completed, queue,
                   in_queue>>
    /\ Track

\* ------------------------------------------------------------- Init
ProcessSpecs == [pid : 1..MaxProcs, arrival_time : (-1)..MaxArrival,
                 burst_time : 0..MaxBurst]

\* the process list of main()
MainProcesses ==
    <<[pid |-> 1, arrival_time |-> 0, burst_time |-> 5],
      [pid |-> 2, arrival_time |-> 1, burst_time |-> 3],
      [pid |-> 3, arrival_time |-> 2, burst_time |-> 8],
      [pid |-> 4, arrival_time |-> 3, burst_time |-> 6]>>

Inputs == UNION {[1..n -> ProcessSpecs] : n \in 0..MaxProcs} \cup {MainProcesses}

\* SchedulerSimulator(processes) on a list of newly made Process objects
Construct ==
    \E inp \in Inputs :
        /\ original_processes = [i \in 1..Len(inp) |-> i]
        /\ heap = [i \in 1..Len(inp) |->
                     Process(inp[i].pid, inp[i].arrival_time, inp[i].burst_time)]
        /\ processes = <<>>
        /\ timeline = <<>>
        /\ pc = "ready"
        /\ policy = "none"
        /\ prev = "none"
        /\ quantum = 0
        /\ current_time = 0
        /\ idx = 0
        /\ remaining = <<>>
        /\ completed = <<>>
        /\ queue = <<>>
        /\ in_queue = {}
        /\ result = NoResult
        /\ exception = NoException

Init == Construct /\ seen = NotTracking

Next ==
    \/ fifo_begin
    \/ fifo_loop
    \/ fifo_return
    \/ sjf_begin
    \/ sjf_loop
    \/ sjf_return
    \/ stcf_begin
    \/ stcf_loop
    \/ stcf_return
    \/ rr_begin
    \/ rr_loop
    \/ rr_return

Spec == Init /\ [][Next]_vars

\* The running call keeps executing: the interpreter does not stop inside a
\* loop or before a return.
Step ==
    \/ fifo_loop \/ fifo_return
    \/ sjf_loop \/ sjf_return
    \/ stcf_loop \/ stcf_return
    \/ rr_loop \/ rr_return

\* The calls the termination claim is about: Init narrowed to the valid,
\* non-empty process sets.
ValidInit ==
    /\ Init
    /\ Len(original_processes) > 0
    /\ \A i \in 1..Len(original_processes) :
           /\ heap[original_processes[i]].burst_time > 0
           /\ heap[original_processes[i]].arrival_time >= 0
           /\ \A j \in 1..Len(original_processes) :
                  i # j => heap[original_processes[i]].pid
                               # heap[original_processes[j]].pid

FairSpec == ValidInit /\ [][Next]_vars /\ WF_vars(Step)

\* The same calls on the valid, non-empty process sets, with the history of
\* the first call that ended kept in `seen`.
TrackedInit ==
    /\ Construct
    /\ seen = Tracking
    /\ NumProcs > 0
    /\ \A i \in 1..NumProcs :
           /\ Orig(i).burst_time > 0
           /\ Orig(i).arrival_time >= 0
           /\ \A j \in 1..NumProcs : i # j => Orig(i).pid # Orig(j).pid

TrackedSpec == TrackedInit /\ [][Next]_vars

\* ------------------------------------------------------------- properties
Running == {"fifo", "sjf", "stcf", "rr"}

\* unique pids, burst_time > 0, arrival_time >= 0
ValidProcessSet ==
    /\ \A i \in 1..NumProcs : Orig(i).burst_time > 0 /\ Orig(i).arrival_time >= 0
    /\ \A i, j \in 1..NumProcs : i # j => Orig(i).pid # Orig(j).pid

\* a call on a valid, non-empty process set (with quantum >= 1 for RR)
ValidCall ==
    /\ ValidProcessSet
    /\ NumProcs > 0
    /\ pc \in Running \cup {"done", "raised"}
    /\ policy = "rr" => quantum >= 1

RECURSIVE TimeOf(_, _)
\* total length of the entries of tl whose label is in labels
TimeOf(tl, labels) ==
    IF Len(tl) = 0 THEN 0
    ELSE (IF Head(tl)[1] \in labels THEN Head(tl)[3] - Head(tl)[2] ELSE 0)
         + TimeOf(Tail(tl), labels)

ProcessLabels == {Label(heap[r].pid) : r \in Range(processes)}

Makespan ==
    LET done == {heap[r].completion_time : r \in Range(processes)}
    IN CHOOSE m \in done : \A c \in done : c <= m

\* C1: on valid input, the timeline of a finished run of any policy covers
\* [0, makespan): the first entry starts at 0, every later entry starts where
\* the previous one ends, and the last entry ends at the largest
\* completion_time.
C1_TimelineCoversMakespan ==
    (pc = "done" /\ ValidCall) =>
        /\ Len(timeline) > 0
        /\ timeline[1][2] = 0
        /\ \A i \in 2..Len(timeline) : timeline[i][2] = timeline[i - 1][3]
        /\ Last(timeline)[3] = Makespan

\* C2: on valid input, no two consecutive entries of the timeline of a
\* finished run carry the same label.
C2_MergeInvariant ==
    (pc = "done" /\ ValidCall) =>
        \A i \in 2..Len(timeline) : timeline[i][1] # timeline[i - 1][1]

\* C3: on valid input, at the end of a run of any policy the non-IDLE entries
\* of the timeline add up to the sum of all burst_time, and the entries
\* labelled with a process's pid add up to that process's burst_time.
C3_BusyTimeIsBurstTime ==
    (pc = "done" /\ ValidCall) =>
        /\ TimeOf(timeline, ProcessLabels) = TotalBurst
        /\ \A r \in Range(processes) :
               TimeOf(timeline, {Label(heap[r].pid)}) = heap[r].burst_time

\* a finished run in which a process was preempted and resumed, after an
\* idle start
C3_Witness ==
    /\ pc = "done" /\ ValidCall
    /\ policy \in {"stcf", "rr"}
    /\ NumProcs = 2
    /\ Len(timeline) >= 3
    /\ timeline[1][2] > 0
    /\ timeline[1][1] = Last(timeline)[1]
    /\ TimeOf(timeline, ProcessLabels) = TotalBurst

\* C4: on valid input, after a run of any policy every process has
\* waiting_time >= 0, 0 <= response_time <= waiting_time,
\* turnaround_time >= burst_time and
\* completion_time >= arrival_time + burst_time, with
\* turnaround = completion - arrival, waiting = turnaround - burst and
\* response = first_run - arrival.
C4_MetricBounds ==
    (pc = "done" /\ ValidCall) =>
        \A r \in Range(processes) :
            LET p == heap[r] IN
            /\ p.waiting_time >= 0
            /\ p.response_time >= 0
            /\ p.response_time <= p.waiting_time
            /\ p.turnaround_time >= p.burst_time
            /\ p.completion_time >= p.arrival_time + p.burst_time
            /\ p.turnaround_time = p.completion_time - p.arrival_time
            /\ p.waiting_time = p.turnaround_time - p.burst_time
            /\ p.response_time = p.first_run - p.arrival_time

\* a finished run in which some process waited for its first dispatch and
\* again after being preempted
C4_Witness ==
    /\ pc = "done" /\ ValidCall
    /\ \E r \in Range(processes) :
           heap[r].response_time > 0 /\ heap[r].waiting_time > heap[r].response_time

AllCompleted ==
    \A r \in Range(processes) :
        heap[r].completion_time >= heap[r].arrival_time + heap[r].burst_time

\* C5: a call of any policy on a valid, non-empty process set (quantum >= 1
\* for RR) eventually leaves its main loop and returns, with every process
\* completed.
C5_Termination ==
    (pc \in Running /\ ValidCall) ~> (pc = "done" /\ AllCompleted)

\* a returned RR call that needed several slices and an idle step
C5_Witness ==
    /\ pc = "done" /\ ValidCall /\ AllCompleted
    /\ policy = "rr"
    /\ Len(timeline) >= 3
    /\ timeline[1][2] > 0

\* C6: a call on an invalid process set (a burst_time <= 0, an
\* arrival_time < 0 or a repeated pid) is rejected with a ValidationError
\* before the simulation starts: the clock stays at 0, the timeline stays
\* empty and no process is changed.
C6_InvalidSetRejected ==
    (~ValidProcessSet /\ pc # "ready") =>
        /\ pc # "done"
        /\ pc = "raised" => exception = "ValidationError"
        /\ current_time = 0
        /\ timeline = <<>>
        /\ \A r \in Range(processes) : heap[r] = reset(heap[r])

\* C7: rr_schedule with quantum <= 0 (on an otherwise valid, non-empty
\* process set) is rejected with a ValidationError before any process is
\* dispatched: no timeline entry, no first_run, no normal return.
C7_BadQuantumRejected ==
    (policy = "rr" /\ quantum <= 0 /\ ValidProcessSet /\ NumProcs > 0) =>
        /\ pc # "done"
        /\ pc = "raised" => exception = "ValidationError"
        /\ timeline = <<>>
        /\ \A r \in Range(processes) : heap[r].first_run = -1

\* C8: a call of any policy on an empty process list is not an error: it
\* returns with an empty timeline and absent averages, and nothing is
\* divided by the process count 0.
C8_EmptyListIsNoError ==
    (NumProcs = 0 /\ pc \notin Running \cup {"ready"}) =>
        /\ pc = "done"
        /\ exception = NoException
        /\ timeline = <<>>
        /\ result = NoResult

\* C9: in every run (on arrival times >= 0) the clock never passes the
\* largest arrival_time plus the sum of all burst_time; a run whose idle loop
\* would pass it, such as one with a process of burst_time 0, stops with an
\* InternalInvariantError instead.
C9_ClockBounded ==
    (pc # "ready" /\ \A i \in 1..NumProcs : Orig(i).arrival_time >= 0) =>
        current_time <= MaxArrivalOf + TotalBurst

\* the working objects are new objects, one per caller object in the caller's
\* order (FIFO: in some order), in their initial state
FreshCopy ==
    /\ Len(processes) = NumProcs
    /\ Range(processes) \cap Range(original_processes) = {}
    /\ \A i, j \in 1..NumProcs : i # j => processes[i] # processes[j]
    /\ \E f \in [1..NumProcs -> 1..NumProcs] :
        /\ \A i, j \in 1..NumProcs : i # j => f[i] # f[j]
        /\ policy # "fifo" => \A i \in 1..NumProcs : f[i] = i
        /\ \A i \in 1..NumProcs :
               heap[processes[i]] =
                   Process(Orig(f[i]).pid, Orig(f[i]).arrival_time,
                           Orig(f[i]).burst_time)
    /\ timeline = <<>>
    /\ current_time = 0
    /\ completed = <<>>

\* C10: no step of a run changes the caller's list or its Process objects,
\* and every call starts its loop on a fresh working copy (remaining_time =
\* burst_time, first_run = -1, completion_time 0) and an empty timeline,
\* whatever ran before on the same simulator.
C10_RunIndependence ==
    [][/\ original_processes' = original_processes
       /\ \A r \in Range(original_processes) : heap'[r] = heap[r]
       /\ (pc \in Callable /\ pc' \in Running) => FreshCopy']_vars

\* an SJF run finished after a FIFO run that had reordered its working list
C10_Witness ==
    /\ pc = "done" /\ ValidCall
    /\ prev = "fifo" /\ policy = "sjf"
    /\ \E i, j \in 1..NumProcs : i < j /\ Orig(i).arrival_time > Orig(j).arrival_time

\* position in the caller's list of the process with this pid
InputIndex(pid) == CHOOSE i \in 1..NumProcs : Orig(i).pid = pid

\* p comes before q in FIFO order: earlier arrival, or equal arrival and
\* earlier in the caller's list
FifoBefore(p, q) ==
    \/ p.arrival_time < q.arrival_time
    \/ /\ p.arrival_time = q.arrival_time
       /\ InputIndex(p.pid) < InputIndex(q.pid)

EntriesOf(pid) == {i \in 1..Len(timeline) : timeline[i][1] = Label(pid)}

\* C11: a FIFO run on valid input executes the processes in ascending
\* arrival_time order, equal arrival times in the order of the caller's list,
\* each in one piece: a process that comes before another completes before
\* the other starts, and each has the single timeline entry
\* [first_run, first_run + burst_time).
C11_FifoOrder ==
    (pc = "done" /\ policy = "fifo" /\ ValidCall) =>
        /\ \A r, q \in Range(processes) :
               FifoBefore(heap[r], heap[q]) =>
                   heap[r].completion_time <= heap[q].first_run
        /\ \A r \in Range(processes) :
               /\ heap[r].completion_time = heap[r].first_run + heap[r].burst_time
               /\ \E i \in 1..Len(timeline) :
                      /\ EntriesOf(heap[r].pid) = {i}
                      /\ timeline[i] = <<Label(heap[r].pid), heap[r].first_run,
                                         heap[r].completion_time>>

\* a finished FIFO run on two processes arriving together, the higher pid
\* first in the list
C11_Witness ==
    /\ pc = "done" /\ policy = "fifo" /\ ValidCall
    /\ NumProcs = 2
    /\ Orig(1).arrival_time = Orig(2).arrival_time
    /\ Orig(1).pid > Orig(2).pid
    /\ heap[processes[1]].pid = Orig(1).pid
    /\ heap[processes[2]].first_run = heap[processes[1]].completion_time

\* the caller's list as (pid, arrival_time, burst_time) records
InputSpecs ==
    [i \in 1..NumProcs |->
        [pid |-> Orig(i).pid, arrival_time |-> Orig(i).arrival_time,
         burst_time |-> Orig(i).burst_time]]

PidsOf(s) == [i \in 1..Len(s) |-> heap[s[i]].pid]

\* an RR step that executed a slice
RRSlice == pc = "rr" /\ pc' = "rr" /\ Len(timeline') = Len(timeline) + 1

\* the ready queue at the dispatch of an RR step: the queue, then the
\* unfinished processes that have arrived and are not in it, in list order
QueueAtDispatch ==
    LET late(r) == /\ heap[r].arrival_time <= current_time
                   /\ heap[r].remaining_time > 0
                   /\ r \notin Range(queue)
    IN queue \o SelectSeq(processes, late)

\* C12: after an RR slice [start, end) of a process X that leaves X
\* unfinished, the queue is the rest of the queue at dispatch, then the
\* processes with arrival_time in (start, end] in list order, then X.  For
\* main()'s processes P1(0,5), P2(1,3), P3(2,8), P4(3,6) and quantum 3, after
\* the first slice the timeline is P1 [0,3), P1 has remaining_time 2 and the
\* queue is P2, P3, P4, P1.
C12_RequeueOrder ==
    /\ []((InputSpecs = MainProcesses /\ pc = "rr" /\ quantum = 3
             /\ Len(timeline) = 1) =>
            /\ timeline = <<<<Label(1), 0, 3>>>>
            /\ PidsOf(queue) = <<2, 3, 4, 1>>
            /\ heap[Last(queue)].remaining_time = 2
            /\ heap[Last(queue)].completion_time = 0)
    /\ [][(RRSlice /\ ValidCall) =>
            LET X == Head(QueueAtDispatch)
                start == Last(timeline')[2]
                end == Last(timeline')[3]
                during(r) == /\ start < heap[r].arrival_time
                             /\ heap[r].arrival_time <= end
            IN /\ Last(timeline')[1] = Label(heap[X].pid)
               /\ start = current_time /\ end = current_time'
               /\ heap'[X].remaining_time > 0 =>
                      queue' = Tail(QueueAtDispatch)
                                   \o SelectSeq(processes, during) \o <<X>>]_vars

\* main()'s processes under quantum 3 right after the first slice
C12_Witness ==
    /\ InputSpecs = MainProcesses
    /\ pc = "rr" /\ quantum = 3
    /\ Len(timeline) = 1
    /\ PidsOf(queue) = <<2, 3, 4, 1>>

\* the field of the working process with this pid
Of(pid, field) ==
    LET r == CHOOSE r \in Range(processes) : heap[r].pid = pid IN heap[r][field]

\* C13: the FIFO run on main()'s processes P1(0,5), P2(1,3), P3(2,8),
\* P4(3,6) ends with completion times 5, 8, 16, 22, turnaround times 5, 7,
\* 14, 19, waiting times 0, 4, 6, 13 and response times 0, 4, 6, 13, and
\* returns the totals 45, 23, 23 divided by the 4 processes (11.25, 5.75,
\* 5.75).
C13_FifoReference ==
    (InputSpecs = MainProcesses /\ policy = "fifo" /\ pc \in {"done", "raised"}) =>
        /\ pc = "done"
        /\ [i \in 1..4 |-> Of(i, "completion_time")] = <<5, 8, 16, 22>>
        /\ [i \in 1..4 |-> Of(i, "turnaround_time")] = <<5, 7, 14, 19>>
        /\ [i \in 1..4 |-> Of(i, "waiting_time")] = <<0, 4, 6, 13>>
        /\ [i \in 1..4 |-> Of(i, "response_time")] = <<0, 4, 6, 13>>
        /\ result.avg_tat = <<45, 4>>
        /\ result.avg_wt = <<23, 4>>
        /\ result.avg_rt = <<23, 4>>
        /\ 100 * result.avg_tat[1] = 1125 * result.avg_tat[2]
        /\ 100 * result.avg_wt[1] = 575 * result.avg_wt[2]
        /\ 100 * result.avg_rt[1] = 575 * result.avg_rt[2]

\* the FIFO run on main()'s processes has returned
C13_Witness ==
    /\ InputSpecs = MainProcesses /\ policy = "fifo" /\ pc = "done"
    /\ Len(timeline) = 4
    /\ result # NoResult

\* C14: a call with the policy and quantum of the first call that ended on
\* the same process list goes through the same states, step by step, and
\* ends with the same timeline, process states, result and exception.
C14_Determinism ==
    (seen.on /\ seen.call = <<policy, quantum>> /\ pc \notin {"ready"}) =>
        /\ Len(seen.trace) <= Len(seen.first)
        /\ \A i \in 1..Len(seen.trace) : seen.trace[i] = seen.first[i]
        /\ Last(seen.trace) = Snapshot
        /\ pc \in {"done", "raised"} => seen.trace = seen.first

\* a preempting run (STCF or RR) repeated after a FIFO run in between has
\* ended like the first one
C14_Witness ==
    /\ seen.on /\ seen.call = <<policy, quantum>>
    /\ pc = "done"
    /\ policy \in {"stcf", "rr"}
    /\ prev = "fifo"
    /\ Len(timeline) >= 3
    /\ seen.trace = seen.first

\* C15: in every policy a process's completion_time is assigned at the step
\* in which its remaining_time reaches 0, so a process with a completion_time
\* has remaining_time 0, and at the end of a run every process has
\* remaining_time 0.
C15_CompletedMeansNothingRemains ==
    ValidCall =>
        \A r \in Range(processes) :
            /\ heap[r].completion_time # 0 => heap[r].remaining_time = 0
            /\ pc = "done" => heap[r].remaining_time = 0

\* a process object that may run at the current clock under STCF
IsAvailable(r) ==
    heap[r].arrival_time <= current_time /\ heap[r].remaining_time > 0

\* C16: at every STCF time unit in which some process is available, the
\* process that runs for the unit has the minimum remaining_time among the
\* available ones and, among those tied at the minimum, comes first in the
\* input list; nothing else changes in any process.
C16_StcfSelection ==
    [][(pc = "stcf" /\ \E r \in Range(processes) : IsAvailable(r)) =>
          \E i \in 1..Len(processes) :
              LET r == processes[i] IN
              /\ IsAvailable(r)
              /\ \A j \in 1..Len(processes) :
                    IsAvailable(processes[j]) =>
                        /\ heap[r].remaining_time <= heap[processes[j]].remaining_time
                        /\ heap[r].remaining_time = heap[processes[j]].remaining_time
                               => i <= j
              /\ heap'[r].remaining_time = heap[r].remaining_time - 1
              /\ \A j \in 1..Len(processes) :
                    j # i => heap'[processes[j]] = heap[processes[j]]
              /\ current_time' = current_time + 1
              /\ Last(timeline')[1] = Label(heap[r].pid)
              /\ Last(timeline')[3] = current_time']_vars

\* a tie at time 1 between P1 (arrived at 0, ran the unit before, lower pid)
\* and P2 (arrived at 1, first in the list) was given to P2
C16_Witness ==
    /\ pc = "stcf" /\ Len(processes) = 2
    /\ heap[processes[1]].pid = 2 /\ heap[processes[2]].pid = 1
    /\ heap[processes[1]].arrival_time = 1 /\ heap[processes[2]].arrival_time = 0
    /\ heap[processes[1]].remaining_time = 1 /\ heap[processes[2]].remaining_time = 2
    /\ timeline = <<<<Label(1), 0, 1>>, <<Label(2), 1, 2>>>>

\* the processes SJF has not run yet, as positions of the input list
NotYetRun == {i \in 1..Len(processes) : processes[i] \in Range(remaining)}

\* C17: at every SJF dispatch the chosen process has the minimum burst_time
\* among the not-yet-run processes that have arrived and, among those tied,
\* comes first in the input list; it runs to completion and leaves the
\* not-yet-run processes.  When none of them has arrived, the clock jumps to
\* their minimum arrival_time and one IDLE entry covers the gap.
C17_SjfSelection ==
    [][(pc = "sjf" /\ NotYetRun # {}) =>
          LET here == {i \in NotYetRun :
                          heap[processes[i]].arrival_time <= current_time}
          IN IF here = {}
             THEN /\ \E i \in NotYetRun :
                        /\ current_time' = heap[processes[i]].arrival_time
                        /\ \A j \in NotYetRun :
                              current_time' <= heap[processes[j]].arrival_time
                  /\ timeline' = Append(timeline, <<IDLE, current_time, current_time'>>)
                  /\ remaining' = remaining /\ heap' = heap
             ELSE \E i \in here :
                     LET r == processes[i] IN
                     /\ \A j \in here :
                           /\ heap[r].burst_time <= heap[processes[j]].burst_time
                           /\ heap[r].burst_time = heap[processes[j]].burst_time
                                  => i <= j
                     /\ current_time' = current_time + heap[r].burst_time
                     /\ timeline' = Append(timeline, <<Label(heap[r].pid),
                                                       current_time, current_time'>>)
                     /\ heap'[r].completion_time = current_time'
                     /\ r \notin Range(completed)
                     /\ Range(remaining') = Range(remaining) \ {r}
                     /\ Len(remaining') = Len(remaining) - 1]_vars

\* after an idle jump to time 1, a tie between P2 (first in the list) and P1
\* was given to P2 while P1 is still waiting
C17_Witness ==
    /\ pc = "sjf" /\ Len(processes) = 2
    /\ heap[processes[1]].pid = 2 /\ heap[processes[2]].pid = 1
    /\ heap[processes[1]].burst_time = heap[processes[2]].burst_time
    /\ timeline = <<<<IDLE, 0, 1>>,
                    <<Label(2), 1, 1 + heap[processes[1]].burst_time>>>>
    /\ heap[processes[2]].arrival_time = 1
    /\ remaining = <<processes[2]>>

\* no two processes of the list share a pid
UniquePids ==
    \A i, j \in 1..Len(processes) :
        heap[processes[i]].pid = heap[processes[j]].pid => i = j

\* the start of the first timeline entry of pid
FirstDispatch(pid) ==
    LET i == CHOOSE i \in EntriesOf(pid) : \A j \in EntriesOf(pid) : i <= j
    IN timeline[i][2]

\* C18: in every policy a process's first_run is -1 until its first
\* dispatch and is the clock value of that first dispatch from then on;
\* response_time is first_run - arrival_time once first_run is set; no later
\* step of the run changes first_run or response_time.
C18_FirstRunSetOnce ==
    /\ [](UniquePids =>
            \A r \in Range(processes) :
                /\ EntriesOf(heap[r].pid) = {} => heap[r].first_run = -1
                /\ EntriesOf(heap[r].pid) # {} =>
                       heap[r].first_run = FirstDispatch(heap[r].pid)
                /\ heap[r].first_run # -1 =>
                       heap[r].response_time =
                           heap[r].first_run - heap[r].arrival_time)
    /\ [][(pc \in Running) =>
            \A r \in Range(processes) :
                heap[r].first_run # -1 =>
                    (/\ heap'[r].first_run = heap[r].first_run
                     /\ heap'[r].response_time = heap[r].response_time)]_vars

\* a process that waited before its first dispatch has been dispatched again
\* after another process ran, under STCF or RR
C18_Witness ==
    /\ ValidCall /\ policy \in {"stcf", "rr"}
    /\ \E r \in Range(processes) :
          /\ Cardinality(EntriesOf(heap[r].pid)) >= 2
          /\ heap[r].first_run = FirstDispatch(heap[r].pid)
          /\ heap[r].response_time > 0
          /\ Last(timeline)[1] = Label(heap[r].pid)
          /\ Last(timeline)[2] > heap[r].first_run

\* the process object whose slice is the last timeline entry
Dispatched(tl) ==
    CHOOSE r \in Range(processes) : Label(heap[r].pid) = Last(tl)[1]

\* a step of the STCF or RR loop that executes a process
DispatchStep ==
    /\ pc \in {"stcf", "rr"} /\ pc' = pc
    /\ timeline' # timeline

\* C19: on valid input every process has 0 <= remaining_time <= burst_time in
\* every state, no step of a run increases a remaining_time, an RR dispatch
\* reduces the dispatched process's remaining_time by exactly
\* min(quantum, remaining_time), an STCF dispatch by exactly 1, and a
\* dispatch leaves the other processes' remaining_time alone.
C19_RemainingTime ==
    /\ [](ValidCall =>
            \A r \in Range(processes) :
                /\ 0 <= heap[r].remaining_time
                /\ heap[r].remaining_time <= heap[r].burst_time)
    /\ [][(ValidCall /\ pc \in Running) =>
            /\ \A r \in Range(processes) :
                  heap'[r].remaining_time <= heap[r].remaining_time
            /\ DispatchStep =>
                  LET cp == Dispatched(timeline')
                      used == heap[cp].remaining_time - heap'[cp].remaining_time
                  IN /\ pc = "rr" =>
                            used = Min(quantum, heap[cp].remaining_time)
                     /\ pc = "stcf" => used = 1
                     /\ current_time' = current_time + used
                     /\ \A r \in Range(processes) \ {cp} :
                            heap'[r].remaining_time = heap[r].remaining_time]_vars

\* an RR run with quantum 2 whose last slice was cut to the 1 unit its
\* process still needed, while another process is partly executed
C19_Witness ==
    /\ ValidCall /\ pc = "rr" /\ quantum = 2
    /\ Len(timeline) > 0
    /\ Last(timeline)[3] - Last(timeline)[2] = 1
    /\ heap[Dispatched(timeline)].remaining_time = 0
    /\ heap[Dispatched(timeline)].burst_time = 3
    /\ \E r \in Range(processes) :
          0 < heap[r].remaining_time /\ heap[r].remaining_time < heap[r].burst_time

\* the queue q holds no process twice, inq is exactly the pids of q, and no
\* process of q has remaining_time 0 in h
QueueConsistent(h, q, inq) ==
    /\ \A i, j \in 1..Len(q) : q[i] = q[j] => i = j
    /\ inq = {h[q[i]].pid : i \in 1..Len(q)}
    /\ \A i \in 1..Len(q) : h[q[i]].remaining_time # 0

\* C20: on valid input the RR ready queue is consistent at every iteration of
\* the loop and after the arrival scan inside an iteration: no process is in
\* the queue twice, in_queue is exactly the set of pids in the queue, and no
\* queued process has remaining_time 0.
C20_QueueConsistent ==
    /\ []((ValidCall /\ pc = "rr") => QueueConsistent(heap, queue, in_queue))
    /\ [][(ValidCall /\ pc = "rr" /\ pc' = "rr") =>
             LET a == Admit(heap, processes, current_time, queue, in_queue, 0)
             IN /\ QueueConsistent(heap, a.queue, a.in_queue)
                /\ QueueConsistent(heap', queue', in_queue')
                /\ DispatchStep =>
                      (/\ Dispatched(timeline') = Head(a.queue)
                       /\ heap'[Head(a.queue)].remaining_time > 0
                              => Last(queue') = Head(a.queue)
                       /\ heap'[Head(a.queue)].remaining_time = 0
                              => Head(a.queue) \notin Range(queue'))]_vars

\* two processes wait in the queue, the last of them re-queued after a
\* slice, while a finished process is in neither the queue nor in_queue
C20_Witness ==
    /\ ValidCall /\ pc = "rr"
    /\ Len(queue) >= 2
    /\ heap[Last(queue)].remaining_time < heap[Last(queue)].burst_time
    /\ \E r \in Range(processes) :
          /\ heap[r].remaining_time = 0
          /\ r \notin Range(queue)
          /\ heap[r].pid \notin in_queue

\* C21: on valid input every timeline entry of every policy has
\* start < end, its label is IDLE or the label of a process of the input,
\* and an entry of a process does not start before the process's
\* arrival_time.
C21_TimelineEntries ==
    ValidCall =>
        \A i \in 1..Len(timeline) :
            /\ timeline[i][2] < timeline[i][3]
            /\ \/ timeline[i][1] = IDLE
               \/ \E k \in 1..NumProcs :
                     /\ timeline[i][1] = Label(Orig(k).pid)
                     /\ Orig(k).arrival_time <= timeline[i][2]

\* a finished run with a process entry, an IDLE entry and an entry of a
\* process that starts exactly at its arrival_time after the idle period
C21_Witness ==
    /\ ValidCall /\ pc = "done" /\ Len(timeline) = 3
    /\ timeline[1][1] # IDLE /\ timeline[2][1] = IDLE
    /\ \E k \in 1..NumProcs :
          /\ timeline[3][1] = Label(Orig(k).pid)
          /\ Orig(k).arrival_time = timeline[3][2]

\* the step appends an IDLE entry (FIFO, SJF)
IdleEntryStep ==
    /\ pc \in {"fifo", "sjf"}
    /\ Len(timeline') > Len(timeline)
    /\ timeline'[Len(timeline) + 1][1] = IDLE

\* the step advances the clock without executing a process (STCF, RR)
IdleUnitStep ==
    /\ pc \in {"stcf", "rr"} /\ pc' = pc
    /\ timeline' = timeline
    /\ current_time' > current_time

\* C22: on valid input, when a step of any policy lets the clock advance
\* without executing a process (an IDLE entry in FIFO and SJF, an idle unit
\* in STCF and RR), the idle period starts at the current clock and no
\* process that is not completed arrives before the idle period ends.
C22_WorkConserving ==
    [][ValidCall =>
          /\ IdleEntryStep =>
                LET idle == timeline'[Len(timeline) + 1] IN
                /\ idle[2] = current_time
                /\ \A r \in Range(processes) :
                      heap[r].completion_time = 0 =>
                          heap[r].arrival_time >= idle[3]
          /\ IdleUnitStep =>
                /\ current_time' = current_time + 1
                /\ \A r \in Range(processes) :
                      heap[r].completion_time = 0 =>
                          heap[r].arrival_time >= current_time']_vars

\* under STCF or RR the clock has advanced past the end of the last entry
\* while a process that has not arrived yet is still to run
C22_Witness ==
    /\ ValidCall /\ pc \in {"stcf", "rr"}
    /\ Len(timeline) > 0 /\ Last(timeline)[3] < current_time
    /\ \E r \in Range(processes) :
          /\ heap[r].completion_time = 0
          /\ heap[r].arrival_time >= current_time

\* the time units in which the timeline tl executes some process
BusyUnits(tl) ==
    {t \in 0..MaxClock :
        \E i \in 1..Len(tl) :
            tl[i][1] # IDLE /\ tl[i][2] <= t /\ t < tl[i][3]}

\* the largest completion_time of a list of process records
LargestCompletion(ps) ==
    LET done == {ps[i].completion_time : i \in 1..Len(ps)}
    IN CHOOSE m \in done : \A c \in done : c <= m

\* C23: on the same valid input, a finished run of any policy (RR with any
\* quantum >= 1) has the same final clock value, the same largest
\* completion_time and the same set of executing time units as the first
\* run that finished on that input, whatever policy that was.
C23_SameMakespan ==
    (/\ seen.on /\ seen.call # <<>>
     /\ ValidCall /\ pc = "done"
     /\ Last(seen.first).pc = "done") =>
        LET f == Last(seen.first) IN
        /\ current_time = f.current_time
        /\ Makespan = LargestCompletion(f.processes)
        /\ Makespan = current_time
        /\ BusyUnits(timeline) = BusyUnits(f.timeline)

\* a finished run whose policy or quantum differs from the first finished
\* run's, on an input with an idle period, with a different timeline
C23_Witness ==
    /\ seen.on /\ seen.call # <<>> /\ seen.call # <<policy, quantum>>
    /\ ValidCall /\ pc = "done" /\ Last(seen.first).pc = "done"
    /\ seen.call[1] # policy
    /\ timeline # Last(seen.first).timeline
    /\ BusyUnits(timeline) = BusyUnits(Last(seen.first).timeline)
    /\ \E t \in 0..(current_time - 1) : t \notin BusyUnits(timeline)

\* C24: under STCF, when the process that executed the unit ending at the
\* current clock is not finished and no process has arrival_time equal to
\* the current clock, the next unit is executed by the same process.
C24_StcfPreemptionPoints ==
    [][(/\ pc = "stcf" /\ pc' = "stcf"
        /\ UniquePids
        /\ Len(timeline) > 0
        /\ Last(timeline)[3] = current_time
        /\ heap[Dispatched(timeline)].remaining_time > 0
        /\ \A r \in Range(processes) : heap[r].arrival_time # current_time) =>
          LET x == Dispatched(timeline) IN
          /\ heap'[x].remaining_time = heap[x].remaining_time - 1
          /\ current_time' = current_time + 1
          /\ timeline' = [timeline EXCEPT ![Len(timeline)][3] = current_time']]_vars

\* P1 ran the unit [0, 1) and still has work; P2 arrived at 1, replaced it
\* and kept the CPU for the units [1, 3) during which nothing arrived
C24_Witness ==
    /\ pc = "stcf" /\ UniquePids /\ Len(processes) = 2
    /\ \E a, b \in Range(processes) :
          /\ a # b
          /\ timeline = <<<<Label(heap[a].pid), 0, 1>>,
                          <<Label(heap[b].pid), 1, 3>>>>
          /\ heap[a].remaining_time > 0
          /\ heap[b].arrival_time = 1

\* the position of the last entry of tl with the label lab (0 if none)
LastEntry(tl, lab) ==
    LET is == {i \in 1..Len(tl) : tl[i][1] = lab}
    IN IF is = {} THEN 0 ELSE CHOOSE i \in is : \A j \in is : j <= i

\* for a process x waiting in the queue q: the labels dispatched since x's
\* last slice, followed by the labels queued ahead of x
WaitOrder(tl, q, x) ==
    LET last == LastEntry(tl, Label(heap[x].pid))
        k == CHOOSE k \in 1..Len(q) : q[k] = x
    IN [i \in 1..(Len(tl) - last) |-> tl[last + i][1]]
       \o [i \in 1..(k - 1) |-> Label(heap[q[i]].pid)]

\* the processes waiting in the queue after at least one slice
Requeued == {x \in Range(queue) : LastEntry(timeline, Label(heap[x].pid)) > 0}

\* C25: under RR on valid input with quantum >= 1, for a process X that
\* was re-queued after a slice, the processes dispatched since that slice
\* followed by the processes queued ahead of X are the same sequence from
\* the re-queueing of X to its next dispatch, without repetition and without
\* X: exactly the processes queued ahead of X when it was re-queued run
\* between two consecutive dispatches of X, once each.  Between the end of a
\* slice of X and X's next dispatch at most (number of processes - 1) x
\* quantum time units pass.
C25_BoundedWaiting ==
    /\ []((ValidCall /\ policy = "rr" /\ pc \in {"rr", "done"}) =>
            /\ \A x \in Requeued :
                  LET w == WaitOrder(timeline, queue, x) IN
                  /\ \A i, j \in 1..Len(w) : w[i] = w[j] => i = j
                  /\ \A i \in 1..Len(w) : w[i] # Label(heap[x].pid)
            /\ \A i, j \in 1..Len(timeline) :
                  (/\ i < j /\ timeline[i][1] = timeline[j][1]
                   /\ \A m \in (i + 1)..(j - 1) : timeline[m][1] # timeline[i][1]) =>
                      /\ \A m, n \in (i + 1)..(j - 1) :
                            timeline[m][1] = timeline[n][1] => m = n
                      /\ timeline[j][2] - timeline[i][3]
                             <= (NumProcs - 1) * quantum)
    /\ [][(ValidCall /\ pc = "rr" /\ pc' = "rr") =>
            \A x \in Requeued :
                (Len(timeline') = Len(timeline) \/ x # Dispatched(timeline')) =>
                    (/\ x \in Range(queue')
                     /\ WaitOrder(timeline', queue', x)
                            = WaitOrder(timeline, queue, x))]_vars

\* with quantum 2, P1 ran, then P2, then P1 again: P1 waited exactly
\* (number of other processes) x quantum time units
C25_Witness ==
    /\ ValidCall /\ pc = "rr" /\ quantum = 2 /\ Len(processes) = 2
    /\ Len(timeline) = 3
    /\ timeline[1][1] = timeline[3][1] /\ timeline[2][1] # timeline[1][1]
    /\ timeline[3][2] - timeline[1][3] = (NumProcs - 1) * quantum
    /\ Requeued # {}

====
